---- MODULE Spec2Model ----
(***************************************************************************)
(* Bookworm backend: the login-or-register endpoint, the bearer-token      *)
(* guard, the guarded review / reading-list / profile routes (server.js)   *)
(* and the database seeding script, as one state machine over the three    *)
(* MongoDB collections.  Every await of a handler is a suspension point:   *)
(* the storage call it waits for is one atomic step of the database, and   *)
(* the synchronous code up to the next await belongs to the same step.     *)
(* Time is counted in days.                                                *)
(***************************************************************************)
EXTENDS Integers, Sequences, FiniteSets

VARIABLES users, reviews, reading, now, req, seed, issued, cleared

vars == <<users, reviews, reading, now, req, seed, issued, cleared>>

(* ------------------------------ bounds -------------------------------- *)

\* concurrent request tasks of the server
MaxReq == 2
\* last day the clock reaches
MaxTime == 8
\* single days the clock steps through after each whole validity window
MaxDay == 1
\* cap on the Review collection for requests (Review.create is unbounded)
MaxReviews == 1
\* cap on the number of tokens handed out (jwt.sign is unbounded)
MaxIssued == 2

Slots == 1..MaxReq

(* --------------------------- JSON values ------------------------------ *)

\* A JSON value of a request body: its JavaScript type and, for a string,
\* its characters in chunks (the chunk "@gmail.com" is the suffix tested).
Str(s) == [t |-> "string", s |-> s]
Undef == [t |-> "undefined", s |-> <<>>]
Num == [t |-> "number", s |-> <<"7">>]

\* JavaScript truthiness: undefined and "" are falsy, a non-zero number and
\* a non-empty string are truthy.
Truthy(v) == \/ v.t = "number"
             \/ v.t = "string" /\ v.s # <<>>

\* String.prototype.endsWith on chunked strings.
EndsWith(s, suffix) ==
    /\ Len(s) >= Len(suffix)
    /\ SubSeq(s, Len(s) - Len(suffix) + 1, Len(s)) = suffix

GmailSuffix == <<"@gmail.com">>

Test1 == Str(<<"test1", "@gmail.com">>)
Test2 == Str(<<"test2", "@gmail.com">>)
Pw123 == Str(<<"test123">>)
PwOther == Str(<<"hunter2">>)

\* the email fields a client may send
EmailInputs ==
    { Test1,
      Str(<<"test1", "@yahoo.com">>),
      Str(<<"test1", "@gmail.com", ".evil.org">>),
      Str(<<>>), Num }

\* the password fields a client may send (strings, or nothing)
PasswordInputs == { Pw123, PwOther, Undef }

(* ----------------------------- bcrypt --------------------------------- *)

Salts == {"saltA", "saltB"}

NoHash == [cost |-> 0, salt |-> "none", digest |-> <<>>]

\* bcrypt.hash(password, 10) with the salt the library drew
BcryptHash(password, salt) ==
    [cost |-> 10, salt |-> salt, digest |-> <<salt>> \o password.s]

\* a compare that accepts every password
BcryptCompareMutAny(password, hash) == TRUE

\* bcrypt.compare(password, hash): re-hash under the stored salt, compare
BcryptCompare(password, hash) == BcryptHash(password, hash.salt) = hash

(* ------------------------------- JWT ---------------------------------- *)

JWT_SECRET == "devsecret"

\* validity window of a token, in days ('7d')
TTL == 7

Hmac(email, iat, exp, key) == [email |-> email, iat |-> iat, exp |-> exp, key |-> key]

\* the empty string, which is what auth() verifies when the header has no
\* second word; also the "no token" of a response
EmptyToken == [form |-> "empty", email |-> Undef, iat |-> 0, exp |-> 0,
               sig |-> Hmac(Undef, 0, 0, "none")]

\* jwt.sign({email}, secret, {expiresIn: '7d'})
JwtSign(email, secret, t) ==
    [form |-> "jws", email |-> email, iat |-> t, exp |-> t + TTL,
     sig |-> Hmac(email, t, t + TTL, secret)]

\* a verify that does not look at exp
JwtVerifyMutNoExp(tok, secret, t) ==
    /\ tok.form = "jws"
    /\ tok.sig = Hmac(tok.email, tok.iat, tok.exp, secret)

\* a verify that does not look at the signature
JwtVerifyMutNoSig(tok, secret, t) ==
    /\ tok.form = "jws"
    /\ t < tok.exp

\* jwt.verify(token, secret): three-part form, signature over the payload,
\* and clock < exp
JwtVerify(tok, secret, t) ==
    /\ tok.form = "jws"
    /\ tok.sig = Hmac(tok.email, tok.iat, tok.exp, secret)
    /\ t < tok.exp

(* --------------------------- collections ------------------------------ *)

NoAccount == [email |-> Undef, passwordHash |-> NoHash, createdAt |-> 0]

\* indices of the documents of a collection that have this email
WithEmail(coll, email) == { k \in 1..Len(coll) : coll[k].email = email }

Min(S) == CHOOSE m \in S : \A n \in S : m <= n

\* collection without its k-th document
RemoveAt(coll, k) == SubSeq(coll, 1, k - 1) \o SubSeq(coll, k + 1, Len(coll))

RECURSIVE Filter(_, _)
Filter(coll, S) ==
    IF coll = <<>> THEN <<>>
    ELSE LET rest == Filter(SubSeq(coll, 1, Len(coll) - 1), S)
         IN IF Len(coll) \in S THEN Append(rest, coll[Len(coll)]) ELSE rest

\* User.findOne({email}): the first Account with that email, or null
UserFindOne(email) ==
    LET m == WithEmail(users, email)
    IN IF m = {} THEN NoAccount ELSE users[Min(m)]

\* a collection without the unique index
UniqueEmailFreeMut(coll, email) == TRUE

\* the unique index on User.email: an insert of a present email is refused

UniqueEmailFree(coll, email) == WithEmail(coll, email) = {}

(* ------------------------------ requests ------------------------------ *)

NoRes == [status |-> 0, token |-> EmptyToken, email |-> Undef, docs |-> <<>>]

Res(status) == [NoRes EXCEPT !.status = status]

IdleReq ==
    [route |-> "none", pc |-> "idle", email |-> Undef, password |-> Undef,
     user |-> NoAccount, hash |-> NoHash, path |-> "none", writes |-> 0,
     tok |-> EmptyToken, bookKey |-> "", rating |-> 0, res |-> NoRes]

Free(i) == req[i].pc \in {"idle", "done"}

\* the request tasks are interchangeable: a new request takes the first free one
Pick(i) == Free(i) /\ \A j \in 1..(i - 1) : ~Free(j)

\* the response is sent; the task's locals (password, hash, fetched user) die
Finish(r, res) ==
    [r EXCEPT !.pc = "done", !.res = res, !.password = Undef, !.hash = NoHash,
              !.user = NoAccount]

(* ------------------------- POST /api/login ---------------------------- *)

\* the synchronous head of the handler: field presence, then the domain
\* test, which throws a TypeError on a value without endsWith
LoginValidate(email, password) ==
    IF ~Truthy(email) \/ ~Truthy(password) THEN 400
    ELSE IF email.t # "string" THEN 500
    ELSE IF ~EndsWith(email.s, GmailSuffix) THEN 400
    ELSE 0

LoginRequest(i, email, password) ==
    /\ Pick(i)
    /\ LET fresh == [IdleReq EXCEPT !.route = "login", !.email = email,
                                    !.password = password]
           v == LoginValidate(email, password)
       IN req' = [req EXCEPT ![i] =
                    IF v # 0 THEN Finish(fresh, Res(v))
                    ELSE [fresh EXCEPT !.pc = "findOne"]]
    /\ UNCHANGED <<users, reviews, reading, now, seed, issued, cleared>>

\* the token and the 200 answer that end both paths
LoginRespond(r, user) ==
    Finish(r, [NoRes EXCEPT !.status = 200,
                            !.token = JwtSign(user.email, JWT_SECRET, now),
                            !.email = user.email])

LoginFindOne(i) ==
    /\ req[i].route = "login" /\ req[i].pc = "findOne"
    /\ LET user == UserFindOne(req[i].email)
       IN req' = [req EXCEPT ![i] =
                    IF user = NoAccount
                    THEN [@ EXCEPT !.pc = "hash", !.path = "register"]
                    ELSE [@ EXCEPT !.pc = "compare", !.path = "authenticate",
                                   !.user = user]]
    /\ UNCHANGED <<users, reviews, reading, now, seed, issued, cleared>>

LoginHash(i) ==
    /\ req[i].route = "login" /\ req[i].pc = "hash"
    /\ \E salt \in Salts :
         req' = [req EXCEPT ![i] = [@ EXCEPT !.pc = "create",
                                    !.hash = BcryptHash(req[i].password, salt)]]
    /\ UNCHANGED <<users, reviews, reading, now, seed, issued, cleared>>

LoginCreate(i) ==
    /\ req[i].route = "login" /\ req[i].pc = "create"
    /\ IF UniqueEmailFree(users, req[i].email)
       THEN LET user == [email |-> req[i].email, passwordHash |-> req[i].hash,
                         createdAt |-> now]
                done == LoginRespond([req[i] EXCEPT !.writes = @ + 1], user)
            IN /\ users' = Append(users, user)
               /\ req' = [req EXCEPT ![i] = done]
               /\ issued' = issued \cup {done.res.token}
       ELSE \* E11000 duplicate key, caught by the handler's catch
            /\ req' = [req EXCEPT ![i] = Finish(@, Res(500))]
            /\ UNCHANGED <<users, issued>>
    /\ UNCHANGED <<reviews, reading, now, seed, cleared>>

LoginCompare(i) ==
    /\ req[i].route = "login" /\ req[i].pc = "compare"
    /\ IF BcryptCompare(req[i].password, req[i].user.passwordHash)
       THEN LET done == LoginRespond(req[i], req[i].user)
            IN /\ req' = [req EXCEPT ![i] = done]
               /\ issued' = issued \cup {done.res.token}
       ELSE /\ req' = [req EXCEPT ![i] = Finish(@, Res(401))]
            /\ UNCHANGED issued
    /\ UNCHANGED <<users, reviews, reading, now, seed, cleared>>

(* ------------------------------ auth() -------------------------------- *)

\* An Authorization header as auth() reads it: whether it is there, and its
\* second blank-separated word (the empty string when there is none).  The
\* first word, the scheme, is not looked at.
NoHeader == [present |-> FALSE, second |-> EmptyToken]
Bearer(tok) == [present |-> TRUE, second |-> tok]
OneWord == [present |-> TRUE, second |-> EmptyToken]

\* an auth() that lets every request with a header through
AuthMutNoVerify(h, t) ==
    IF ~h.present THEN 401 ELSE 0

\* the status auth() answers with, or 0 when it calls next()

Auth(h, t) ==
    IF ~h.present THEN 401
    ELSE IF JwtVerify(h.second, JWT_SECRET, t) THEN 0
    ELSE 401

\* req.user.email, the decoded payload's email
Decoded(h) == h.second.email

\* what a client can put in the header: a token it was given, that token
\* with the payload rewritten (another email, a later expiry) under the old
\* signature, and a token signed with a key that is not the server's
Tampered(tok) ==
    { [tok EXCEPT !.email = e] : e \in {Test1, Test2} \ {tok.email} }
    \cup { [tok EXCEPT !.exp = tok.exp + TTL] }

Forged == { JwtSign(Test1, "guess", 0) }

Headers ==
    {NoHeader, OneWord}
    \cup { Bearer(tok) : tok \in issued }
    \cup { Bearer(tok) : tok \in UNION { Tampered(x) : x \in issued } }
    \cup { Bearer(tok) : tok \in Forged }

(* --------------------------- guarded routes --------------------------- *)

\* a handler that takes the owner from the body
OwnerMutBody(identity, bodyEmail) == bodyEmail

\* The owner of what a guarded handler reads and writes: req.user.email,
\* whatever userEmail the body carries.

Owner(identity, bodyEmail) == identity

\* a guarded request up to its first await: auth(), then the handler's own
\* check of the body; need is TRUE when the field the handler requires
\* (text, bookKey) is there
Guarded(i, route, h, need, firstPc, bookKey, rating, bodyEmail) ==
    /\ Pick(i)
    /\ LET a == Auth(h, now)
           fresh == [IdleReq EXCEPT !.route = route, !.tok = h.second]
       IN req' = [req EXCEPT ![i] =
                    IF a # 0 THEN Finish(fresh, Res(a))
                    ELSE IF ~need
                    THEN Finish([fresh EXCEPT !.path = "admitted",
                                              !.email = Owner(Decoded(h), bodyEmail)],
                                Res(400))
                    ELSE [fresh EXCEPT !.pc = firstPc, !.path = "admitted",
                                       !.email = Owner(Decoded(h), bodyEmail),
                                       !.bookKey = bookKey, !.rating = rating]]
    /\ UNCHANGED <<users, reviews, reading, now, seed, issued, cleared>>

\* POST /api/reviews/:bookKey
PostReview(i, h, text, bookKey, rating, bodyEmail) ==
    /\ Len(reviews) < MaxReviews
    /\ Guarded(i, "postReview", h, text, "reviewCreate", bookKey, rating, bodyEmail)

\* Review.create: the schema wants 1 <= rating <= 5, and the handler stores
\* 0 for a missing rating; a ValidationError ends in the catch.  The text
\* of a review is kept out of the document here: once present, it is only
\* stored.
ReviewCreate(i) ==
    /\ req[i].pc = "reviewCreate"
    /\ IF req[i].rating \in 1..5
       THEN LET doc == [bookKey |-> req[i].bookKey, userEmail |-> req[i].email,
                         rating |-> req[i].rating, createdAt |-> now]
            IN /\ reviews' = Append(reviews, doc)
               /\ req' = [req EXCEPT ![i] =
                            Finish([@ EXCEPT !.writes = @ + 1],
                                   [Res(200) EXCEPT !.docs = <<doc>>])]
       ELSE /\ req' = [req EXCEPT ![i] = Finish(@, Res(500))]
            /\ UNCHANGED reviews
    /\ UNCHANGED <<users, reading, now, seed, issued, cleared>>

\* .sort('-createdAt'): newest first, equal dates in stored order
RECURSIVE SortNewestFirst(_)
SortNewestFirst(docs) ==
    IF docs = <<>> THEN <<>>
    ELSE LET newest == Min({ k \in 1..Len(docs) :
                               \A m \in 1..Len(docs) :
                                   docs[m].createdAt <= docs[k].createdAt })
         IN <<docs[newest]>> \o SortNewestFirst(RemoveAt(docs, newest))

\* ReadingList documents of one user, and of one user and book
ByUser(userEmail) == { k \in 1..Len(reading) : reading[k].userEmail = userEmail }

ByUserAndBook(userEmail, bookKey) ==
    { k \in 1..Len(reading) :
        reading[k].userEmail = userEmail /\ reading[k].bookKey = bookKey }

\* GET /api/reading
GetReading(i, h) ==
    Guarded(i, "getReading", h, TRUE, "readingFind", "", 0, Undef)

ReadingFind(i) ==
    /\ req[i].pc = "readingFind"
    /\ req' = [req EXCEPT ![i] =
                 Finish(@, [Res(200) EXCEPT !.docs =
                     SortNewestFirst(Filter(reading, ByUser(req[i].email)))])]
    /\ UNCHANGED <<users, reviews, reading, now, seed, issued, cleared>>

\* POST /api/reading
PostReading(i, h, bookKey, bodyEmail) ==
    Guarded(i, "postReading", h, bookKey # "", "readingFindOne", bookKey, 0, bodyEmail)

ReadingFindOne(i) ==
    /\ req[i].pc = "readingFindOne"
    /\ req' = [req EXCEPT ![i] =
                 IF ByUserAndBook(req[i].email, req[i].bookKey) # {}
                 THEN Finish(@, Res(409))
                 ELSE [@ EXCEPT !.pc = "readingCreate"]]
    /\ UNCHANGED <<users, reviews, reading, now, seed, issued, cleared>>

\* ReadingList.create: the schema declares no unique index.  title, coverId
\* and authors are kept out of the document here: they are only stored.
ReadingCreate(i) ==
    /\ req[i].pc = "readingCreate"
    /\ LET doc == [userEmail |-> req[i].email, bookKey |-> req[i].bookKey,
                   createdAt |-> now]
       IN /\ reading' = Append(reading, doc)
          /\ req' = [req EXCEPT ![i] =
                       Finish([@ EXCEPT !.writes = @ + 1],
                              [Res(200) EXCEPT !.docs = <<doc>>])]
    /\ UNCHANGED <<users, reviews, now, seed, issued, cleared>>

\* DELETE /api/reading/:bookKey
DeleteReading(i, h, bookKey) ==
    Guarded(i, "deleteReading", h, TRUE, "readingDelete", bookKey, 0, Undef)

\* ReadingList.deleteOne: the first matching document goes, if there is one
ReadingDelete(i) ==
    /\ req[i].pc = "readingDelete"
    /\ LET m == ByUserAndBook(req[i].email, req[i].bookKey)
       IN reading' = IF m = {} THEN reading ELSE RemoveAt(reading, Min(m))
    /\ req' = [req EXCEPT ![i] = Finish(@, Res(200))]
    /\ UNCHANGED <<users, reviews, now, seed, issued, cleared>>

\* GET /api/me
GetMe(i, h) ==
    Guarded(i, "me", h, TRUE, "meFindOne", "", 0, Undef)

\* User.findOne({email}, {passwordHash: 0}); res.json(null) when there is none
MeFindOne(i) ==
    /\ req[i].pc = "meFindOne"
    /\ LET user == UserFindOne(req[i].email)
       IN req' = [req EXCEPT ![i] =
                    Finish(@, [Res(200) EXCEPT
                        !.email = user.email,
                        !.docs = IF user = NoAccount THEN <<>>
                                 ELSE <<[user EXCEPT !.passwordHash = NoHash]>>])]
    /\ UNCHANGED <<users, reviews, reading, now, seed, issued, cleared>>

(* --------------------------- seeding script --------------------------- *)

testUsers == << [email |-> Test1, password |-> Pw123],
                [email |-> Test2, password |-> Pw123] >>

SeedBook == "/works/OL45804W"
OtherBook == "/works/OL1W"

\* the :bookKey and rating values a client may send (0: no rating)
Books == {SeedBook, OtherBook}
Ratings == {0, 5, 6}

testReviews == << [bookKey |-> SeedBook, userEmail |-> Test1, rating |-> 5],
                  [bookKey |-> SeedBook, userEmail |-> Test2, rating |-> 4] >>

testReadingList == << [userEmail |-> Test1, bookKey |-> SeedBook] >>

\* insertMany: each document gets the createdAt default, Date.now
Stamped(docs, t) ==
    [k \in 1..Len(docs) |->
        [f \in DOMAIN docs[k] \cup {"createdAt"} |->
            IF f = "createdAt" THEN t ELSE docs[k][f]]]

SeedIdle == [pc |-> "idle", k |-> 0, hash |-> NoHash]

SeedClearUsers ==
    /\ seed.pc = "idle"
    /\ users' = <<>>
    /\ cleared' = TRUE
    /\ seed' = [seed EXCEPT !.pc = "clearReviews"]
    /\ UNCHANGED <<reviews, reading, now, req, issued>>

SeedClearReviews ==
    /\ seed.pc = "clearReviews"
    /\ reviews' = <<>>
    /\ seed' = [seed EXCEPT !.pc = "clearReading"]
    /\ UNCHANGED <<users, reading, now, req, issued, cleared>>

SeedClearReading ==
    /\ seed.pc = "clearReading"
    /\ reading' = <<>>
    /\ seed' = [seed EXCEPT !.pc = "hash", !.k = 1]
    /\ UNCHANGED <<users, reviews, now, req, issued, cleared>>

SeedHash ==
    /\ seed.pc = "hash"
    /\ \E salt \in Salts :
         seed' = [seed EXCEPT !.pc = "create",
                              !.hash = BcryptHash(testUsers[seed.k].password, salt)]
    /\ UNCHANGED <<users, reviews, reading, now, req, issued, cleared>>

SeedCreate ==
    /\ seed.pc = "create"
    /\ IF UniqueEmailFree(users, testUsers[seed.k].email)
       THEN /\ users' = Append(users, [email |-> testUsers[seed.k].email,
                                       passwordHash |-> seed.hash,
                                       createdAt |-> now])
            /\ seed' = IF seed.k < Len(testUsers)
                       THEN [pc |-> "hash", k |-> seed.k + 1, hash |-> NoHash]
                       ELSE [pc |-> "reviews", k |-> 0, hash |-> NoHash]
       ELSE \* duplicate key: the script's catch logs it and the run is over
            /\ seed' = SeedIdle
            /\ UNCHANGED users
    /\ UNCHANGED <<reviews, reading, now, req, issued, cleared>>

SeedReviews ==
    /\ seed.pc = "reviews"
    /\ reviews' = reviews \o Stamped(testReviews, now)
    /\ seed' = [seed EXCEPT !.pc = "reading"]
    /\ UNCHANGED <<users, reading, now, req, issued, cleared>>

SeedReading ==
    /\ seed.pc = "reading"
    /\ reading' = reading \o Stamped(testReadingList, now)
    /\ seed' = SeedIdle
    /\ UNCHANGED <<users, reviews, now, req, issued, cleared>>

(* -------------------------------- clock ------------------------------- *)

\* a day passes
Tick ==
    /\ now < MaxTime
    /\ now % TTL < MaxDay
    /\ now' = now + 1
    /\ UNCHANGED <<users, reviews, reading, req, seed, issued, cleared>>

\* a whole validity window passes
WeekPasses ==
    /\ now + TTL <= MaxTime
    /\ now' = now + TTL
    /\ UNCHANGED <<users, reviews, reading, req, seed, issued, cleared>>

(* --------------------------- specification ---------------------------- *)

Init ==
    /\ users = <<>>
    /\ reviews = <<>>
    /\ reading = <<>>
    /\ now = 0
    /\ req = [i \in Slots |-> IdleReq]
    /\ seed = SeedIdle
    /\ issued = {}
    /\ cleared = FALSE

\* no request is being served
Quiet == \A j \in Slots : Free(j)

LoginStep ==
    \/ \E i \in Slots : LoginFindOne(i)
    \/ \E i \in Slots : LoginHash(i)
    \/ \E i \in Slots : LoginCreate(i)
    \/ \E i \in Slots : LoginCompare(i)

SeedStep ==
    \/ SeedClearUsers
    \/ SeedClearReviews
    \/ SeedClearReading
    \/ SeedHash
    \/ SeedCreate
    \/ SeedReviews
    \/ SeedReading

GuardStep ==
    \/ \E i \in Slots : ReviewCreate(i)
    \/ \E i \in Slots : ReadingFind(i)
    \/ \E i \in Slots : ReadingFindOne(i)
    \/ \E i \in Slots : ReadingCreate(i)
    \/ \E i \in Slots : ReadingDelete(i)
    \/ \E i \in Slots : MeFindOne(i)

(* Logins racing each other: every body a client may send, one accepted    *)
(* address, the clock moving by days.                                      *)
LoginArrives ==
    \E i \in Slots, e \in EmailInputs, p \in PasswordInputs : LoginRequest(i, e, p)

SpecLogin == Init /\ [][LoginArrives \/ LoginStep \/ Tick]_vars

(* Tokens: the server takes one request at a time, logins issue tokens and *)
(* the profile route is shown them as issued, tampered with, forged or     *)
(* missing, while the clock moves by days and by whole validity windows.   *)
GuardLoginArrives ==
    /\ Quiet
    /\ Cardinality(issued) < MaxIssued
    /\ \E i \in Slots, e \in {Test1, Test2} : LoginRequest(i, e, Pw123)

TokenArrives ==
    /\ Quiet
    /\ \E i \in Slots, h \in Headers : GetMe(i, h)

MeStep == \E i \in Slots : MeFindOne(i)

SpecToken ==
    Init /\ [][GuardLoginArrives \/ LoginStep \/ TokenArrives \/ MeStep
               \/ Tick \/ WeekPasses]_vars

(* The seeding script running beside a server that takes logins and        *)
(* profile requests one at a time.                                         *)
MeArrives ==
    /\ Quiet
    /\ \E i \in Slots, h \in Headers : GetMe(i, h)

SpecSeed ==
    Init /\ [][GuardLoginArrives \/ LoginStep \/ MeArrives \/ MeStep
               \/ SeedStep \/ WeekPasses]_vars

(* Two users, registered and logged in on day 0: the state Spec reaches    *)
(* from Init when both log in for the first time, side by side.            *)
Registered(e) ==
    [email |-> e, passwordHash |-> BcryptHash(Pw123, "saltA"), createdAt |-> 0]

LoggedIn(e) ==
    LoginRespond([IdleReq EXCEPT !.route = "login", !.email = e,
                                 !.path = "register", !.writes = 1],
                 Registered(e))

InitData ==
    /\ users = <<Registered(Test1), Registered(Test2)>>
    /\ reviews = <<>>
    /\ reading = <<>>
    /\ now = 0
    /\ req = [i \in Slots |-> IF i = 1 THEN LoggedIn(Test1)
                              ELSE IF i = 2 THEN LoggedIn(Test2) ELSE IdleReq]
    /\ seed = SeedIdle
    /\ issued = {JwtSign(Test1, JWT_SECRET, 0), JwtSign(Test2, JWT_SECRET, 0)}
    /\ cleared = FALSE

(* Every guarded route, one request at a time, shown every kind of header  *)
(* while the tokens of day 0 age.                                          *)
GuardArrives ==
    /\ Quiet
    /\ \E i \in Slots, h \in Headers :
        \/ \E text \in BOOLEAN : PostReview(i, h, text, SeedBook, 5, Test2)
        \/ GetReading(i, h)
        \/ \E b \in {SeedBook, ""} : PostReading(i, h, b, Test2)
        \/ DeleteReading(i, h, SeedBook)
        \/ GetMe(i, h)

SpecGuard ==
    InitData /\ [][GuardArrives \/ GuardStep \/ WeekPasses]_vars

(* The two users adding to and removing from their reading lists at the    *)
(* same time.                                                              *)
ReadingArrives ==
    \E i \in Slots, tok \in issued :
        \/ PostReading(i, Bearer(tok), SeedBook, tok.email)
        \/ DeleteReading(i, Bearer(tok), SeedBook)

ReadingStep ==
    \/ \E i \in Slots : ReadingFindOne(i)
    \/ \E i \in Slots : ReadingCreate(i)
    \/ \E i \in Slots : ReadingDelete(i)

SpecReading == InitData /\ [][ReadingArrives \/ ReadingStep]_vars

(* The two users, one request at a time, on reviews and reading lists,     *)
(* with bodies that name either user.                                      *)
DataArrives ==
    /\ Quiet
    /\ \E i \in Slots, tok \in issued, b \in Books, e \in {Test1, Test2} :
        \/ \E r \in Ratings : PostReview(i, Bearer(tok), TRUE, b, r, e)
        \/ GetReading(i, Bearer(tok))
        \/ PostReading(i, Bearer(tok), b, e)
        \/ DeleteReading(i, Bearer(tok), b)

DataStep ==
    \/ \E i \in Slots : ReviewCreate(i)
    \/ \E i \in Slots : ReadingFind(i)
    \/ \E i \in Slots : ReadingFindOne(i)
    \/ \E i \in Slots : ReadingCreate(i)
    \/ \E i \in Slots : ReadingDelete(i)

SpecData == InitData /\ [][DataArrives \/ DataStep]_vars
(* The whole system: every request with every body and header, the        *)
(* seeding script and the clock.                                           *)
AnyArrives ==
    \E i \in Slots, h \in Headers, b \in Books, e \in {Test1, Test2} :
        \/ \E text \in BOOLEAN, r \in Ratings : PostReview(i, h, text, b, r, e)
        \/ GetReading(i, h)
        \/ PostReading(i, h, b, e) \/ PostReading(i, h, "", e)
        \/ DeleteReading(i, h, b)
        \/ GetMe(i, h)

Next ==
    \/ LoginArrives \/ (\E i \in Slots, p \in PasswordInputs : LoginRequest(i, Test2, p))
    \/ LoginStep \/ AnyArrives \/ GuardStep \/ SeedStep \/ Tick \/ WeekPasses

Spec == Init /\ [][Next]_vars

(* ------------------------------- claims ------------------------------- *)

LoginDone(i) == req[i].route = "login" /\ req[i].pc = "done"

AccountsOf(email) == { k \in 1..Len(users) : users[k].email = email }

\* the email is a string that ends in the accepted suffix
Accepted(email) == email.t = "string" /\ EndsWith(email.s, GmailSuffix)

\* slot i takes a step
Steps(i) == req'[i] # req[i]

\* C1: the Credential Store never holds two Accounts with one email, and
\* every login that got as far as the store leaves exactly one Account for
\* its email, however the logins interleave at findOne, hash and create.
C1_OneAccountPerEmail ==
    /\ \A a, b \in 1..Len(users) : users[a].email = users[b].email => a = b
    /\ \A i \in Slots :
         LoginDone(i) /\ req[i].path \in {"register", "authenticate"}
            => Cardinality(AccountsOf(req[i].email)) = 1

\* two first-logins for one email raced: both found no Account, one created it
C1_Witness ==
    \E i, j \in Slots :
        /\ i # j /\ LoginDone(i) /\ LoginDone(j)
        /\ req[i].email = req[j].email
        /\ req[i].path = "register" /\ req[j].path = "register"
        /\ req[i].res.status = 200
        /\ Len(users) = 1

\* C2: every login whose email is accepted, whose password is present and
\* whose lookup found no Account ends with 200 {token, email}.
C2_FirstLoginSucceeds ==
    \A i \in Slots :
        LoginDone(i) /\ req[i].path = "register"
            => /\ req[i].res.status = 200
               /\ req[i].res.email = req[i].email
               /\ req[i].res.token # EmptyToken

\* the supplied password is not the one the stored hash was made from
WrongPassword(password, hash) ==
    \A salt \in Salts : BcryptHash(password, salt) # hash

C4_RegisterWritesOnce ==
    \A i \in Slots :
        LoginDone(i)
            => /\ req[i].path = "authenticate" => req[i].writes = 0
               /\ req[i].path = "register" => req[i].writes = 1

\* C5: a login whose email does not end in the accepted suffix is answered
\* 400 before the Credential Store is touched, and gets no token.
C5_BadDomainIsBadRequest ==
    \A i \in Slots :
        LoginDone(i) /\ ~Accepted(req[i].email)
            => /\ req[i].res.status = 400
               /\ req[i].path = "none"
               /\ req[i].res.token = EmptyToken

\* the tokens a client can show
Candidates ==
    issued \cup UNION { Tampered(x) : x \in issued } \cup Forged \cup {EmptyToken}

\* the token came from a login and its 7 days are not over
Valid(tok) == tok \in issued /\ now < tok.iat + TTL

GuardedRoutes == {"postReview", "getReading", "postReading", "deleteReading", "me"}

HandlerPcs == {"reviewCreate", "readingFind", "readingFindOne", "readingCreate",
               "readingDelete", "meFindOne"}

\* slot i takes a new guarded request
Arrival(i) ==
    Steps(i) /\ req[i].pc \in {"idle", "done"} /\ req'[i].route \in GuardedRoutes

\* C6: verify accepts exactly the tokens that a login issued and that are
\* younger than 7 days; a token is accepted on the day it is issued, it
\* carries the email of its login, and that email is what auth() decodes.
C6_VerifyIffIssuedAndFresh ==
    /\ \A tok \in Candidates : JwtVerify(tok, JWT_SECRET, now) <=> Valid(tok)
    /\ \A i \in Slots :
         LoginDone(i) /\ req[i].res.status = 200
            => /\ req[i].res.token \in issued
               /\ req[i].res.token.email = req[i].email
               /\ req[i].res.token.iat = now
                    => JwtVerify(req[i].res.token, JWT_SECRET, now)
    /\ \A i \in Slots :
         req[i].route = "me" /\ req[i].path = "admitted"
            => req[i].tok \in issued /\ req[i].email = req[i].tok.email

\* an issued token was shown after its 7 days and was turned down
C6_Witness ==
    \E i \in Slots :
        /\ req[i].route = "me" /\ req[i].pc = "done"
        /\ req[i].tok \in issued
        /\ now >= req[i].tok.exp
        /\ req[i].res.status = 401

\* C7: on every guarded route a request is admitted exactly when its bearer
\* token is valid, and the handler then sees the token's email; any other
\* request is answered 401 at once, the collections untouched; and only an
\* admitted request ever takes a handler step.
C7_GuardBeforeHandler ==
    [][\A i \in Slots :
         /\ Arrival(i) =>
              IF Valid(req'[i].tok)
              THEN /\ req'[i].path = "admitted"
                   /\ req'[i].email = req'[i].tok.email
              ELSE /\ req'[i].pc = "done"
                   /\ req'[i].path = "none"
                   /\ req'[i].res.status = 401
                   /\ UNCHANGED <<users, reviews, reading>>
         /\ (Steps(i) /\ req[i].pc \in HandlerPcs) =>
              /\ req[i].path = "admitted"
              /\ req[i].tok \in issued
              /\ req[i].email = req[i].tok.email
      ]_vars

\* a token that a login issued was shown to a guarded route after expiry
C7_Witness ==
    \E i \in Slots :
        /\ req[i].route \in GuardedRoutes /\ req[i].pc = "done"
        /\ req[i].tok \in issued
        /\ req[i].path = "none"
        /\ req[i].res.status = 401

\* C8, as claimed: the identity of an admitted request is the email of an
\* Account in the Credential Store at that moment, and GET /api/me returns
\* that Account.
C8_IdentityHasAccount ==
    [][\A i \in Slots :
         /\ (Arrival(i) /\ req'[i].path = "admitted")
              => AccountsOf(req'[i].email) # {}
         /\ (Steps(i) /\ req[i].pc = "meFindOne") => req'[i].res.docs # <<>>
      ]_vars

\* C8, amended: the identity of an admitted request is an email a login
\* issued a token for; its Account is in the store as long as the seeding
\* script has not cleared it; GET /api/me answers 200 with that Account,
\* hash omitted, when it is there and with null when it is not.
C8_IdentityWasIssued ==
    [][\A i \in Slots :
         /\ (Arrival(i) /\ req'[i].path = "admitted")
              => /\ \E tok \in issued : tok.email = req'[i].email
                 /\ ~cleared => AccountsOf(req'[i].email) # {}
         /\ (Steps(i) /\ req[i].pc = "meFindOne")
              => /\ req'[i].res.status = 200
                 /\ req'[i].res.docs = <<>> <=> AccountsOf(req[i].email) = {}
                 /\ ~cleared => req'[i].res.docs # <<>>
                 /\ \A k \in 1..Len(req'[i].res.docs) :
                        /\ req'[i].res.docs[k].email = req[i].email
                        /\ req'[i].res.docs[k].passwordHash = NoHash
      ]_vars

\* a token outlived its Account: admitted after the store was cleared, and
\* GET /api/me answered null
C8_Witness ==
    \E i \in Slots :
        /\ req[i].route = "me" /\ req[i].pc = "done" /\ req[i].path = "admitted"
        /\ cleared
        /\ req[i].res.status = 200
        /\ req[i].res.docs = <<>>

\* C9: the reading list never holds two entries with one (userEmail, bookKey).
C9_UniqueReadingPairs ==
    \A a, b \in 1..Len(reading) :
        (reading[a].userEmail = reading[b].userEmail
            /\ reading[a].bookKey = reading[b].bookKey) => a = b

\* the documents of a collection that are not of this user and book
NotOf(coll, e, b) ==
    Filter(coll, { k \in 1..Len(coll) : ~(coll[k].userEmail = e /\ coll[k].bookKey = b) })

\* C10: a handler step of a request admitted with a token for e appends
\* only Reviews of e, leaves every ReadingList entry that is not of e and
\* of the request's bookKey as it is, and GET /api/reading answers with
\* exactly the entries of e.
C10_ScopedToIdentity ==
    [][\A i \in Slots :
         (Steps(i) /\ req[i].pc \in HandlerPcs) =>
            LET e == req[i].tok.email
                b == req[i].bookKey
            IN /\ NotOf(reading', e, b) = NotOf(reading, e, b)
               /\ Len(reviews') >= Len(reviews)
               /\ SubSeq(reviews', 1, Len(reviews)) = reviews
               /\ \A k \in (Len(reviews) + 1)..Len(reviews') : reviews'[k].userEmail = e
               /\ req[i].pc = "readingFind" =>
                    /\ \A k \in 1..Len(req'[i].res.docs) :
                           req'[i].res.docs[k].userEmail = e
                    /\ Len(req'[i].res.docs)
                         = Cardinality({ k \in 1..Len(reading) : reading[k].userEmail = e })
      ]_vars

\* one user removed a book that the other user still has on the list
C10_Witness ==
    \E i \in Slots :
        /\ req[i].route = "deleteReading" /\ req[i].pc = "done"
        /\ req[i].res.status = 200
        /\ \E k \in 1..Len(reading) :
               /\ reading[k].bookKey = req[i].bookKey
               /\ reading[k].userEmail # req[i].tok.email
        /\ \A k \in 1..Len(reading) : reading[k].userEmail # req[i].tok.email
====
